---------------------------- MODULE Spec2Model ----------------------------
(***************************************************************************)
(* AllClad calibration tracking: the certificate ingestion and             *)
(* reconciliation core of src/app.py over the entities of src/models.py.   *)
(*                                                                         *)
(* Dates are day numbers (days since 1970-01-01), NoDate is Python's None. *)
(* Identifier strings (serial, equipment id, sticker id, log number) are   *)
(* sequences of one-character strings so that lower-casing and substring   *)
(* containment are computed; the identifier alphabet is alphanumeric (no   *)
(* SQL LIKE metacharacters).  Free-text fields are plain strings.          *)
(***************************************************************************)
EXTENDS Integers, Sequences, FiniteSets, TLC

VARIABLES
    db,           \* the committed entity store: [tools, records, attachments]
    session,      \* the unit of work's view of the store (db.session)
    pc,           \* position of the running request handler
    batch,        \* the running batch: store at its start, progress, result list
    today,        \* date.today()
    ev,           \* what the last handler step did (for stating properties)
    pdf,          \* a document: sequence of pages, each the set of phrases on it
    cert_ranges,  \* result of split_pdf_into_certificates
    cert_pdfs,    \* the page ranges extracted so far, one document per range
    cert,         \* a parsed certificate (cert_data)
    match         \* result of match_cert_to_tool

vars == <<db, session, pc, batch, today, ev, pdf, cert_ranges, cert_pdfs, cert, match>>

(***************************************************************************)
(* Bounds of the model.                                                    *)
(***************************************************************************)
MaxPages == 6
MaxRecords == 2

(***************************************************************************)
(* Calendar: datetime.date and dateutil.relativedelta.                     *)
(***************************************************************************)
NoDate == 0

Ordinal(y, m, d) ==
    LET yy  == IF m <= 2 THEN y - 1 ELSE y
        era == yy \div 400
        yoe == yy - era * 400
        mp  == (m + 9) % 12
        doy == (153 * mp + 2) \div 5 + d - 1
        doe == yoe * 365 + yoe \div 4 - yoe \div 100 + doy
    IN  era * 146097 + doe - 719468

Civil(z) ==
    LET zz  == z + 719468
        era == zz \div 146097
        doe == zz - era * 146097
        yoe == (doe - doe \div 1460 + doe \div 36524 - doe \div 146096) \div 365
        doy == doe - (365 * yoe + yoe \div 4 - yoe \div 100)
        mp  == (5 * doy + 2) \div 153
        d   == doy - (153 * mp + 2) \div 5 + 1
        m   == IF mp < 10 THEN mp + 3 ELSE mp - 9
        y   == yoe + era * 400 + (IF m <= 2 THEN 1 ELSE 0)
    IN  [y |-> y, m |-> m, d |-> d]

IsLeap(y) == (y % 4 = 0 /\ y % 100 # 0) \/ y % 400 = 0

DaysInMonth(y, m) ==
    IF m = 2 THEN (IF IsLeap(y) THEN 29 ELSE 28)
    ELSE IF m \in {4, 6, 9, 11} THEN 30 ELSE 31

\* date + relativedelta(months=k): the day is clamped to the month's length
AddMonths(date, k) ==
    LET c   == Civil(date)
        tot == (c.m - 1) + k
        y   == c.y + tot \div 12
        m   == (tot % 12) + 1
        d   == IF c.d > DaysInMonth(y, m) THEN DaysInMonth(y, m) ELSE c.d
    IN  Ordinal(y, m, d)

\* date + relativedelta(days=n)
AddDays(date, n) == date + n

SCHEDULE_CHOICES ==
    {"monthly", "quarterly", "semiannual", "annual", "biennial", "custom"}

\* SCHEDULE_DELTAS, in months (annual and biennial are years=1, years=2)
SCHEDULE_DELTAS ==
    [monthly |-> 1, quarterly |-> 3, semiannual |-> 6, annual |-> 12, biennial |-> 24]

\* custom_days is None (0) or a day count; "and custom_days" is Python truthiness
_next_cal_date(last_cal_date, schedule, custom_days) ==
    IF last_cal_date = NoDate THEN NoDate
    ELSE IF schedule = "custom" /\ custom_days # 0
         THEN AddDays(last_cal_date, custom_days)
    ELSE IF schedule \in DOMAIN SCHEDULE_DELTAS
         THEN AddMonths(last_cal_date, SCHEDULE_DELTAS[schedule])
    ELSE NoDate

(***************************************************************************)
(* Identifier strings.                                                     *)
(***************************************************************************)
LowerChar(c) ==
    CASE c = "A" -> "a"
      [] c = "B" -> "b"
      [] c = "C" -> "c"
      [] c = "D" -> "d"
      [] c = "X" -> "x"
      [] c = "S" -> "s"
      [] c = "N" -> "n"
      [] c = "L" -> "l"
      [] c = "K" -> "k"
      [] OTHER   -> c

Lower(s) == [i \in 1..Len(s) |-> LowerChar(s[i])]

RECURSIVE LStrip(_)
LStrip(s) == IF s # <<>> /\ Head(s) = " " THEN LStrip(Tail(s)) ELSE s

RECURSIVE RStrip(_)
RStrip(s) ==
    IF s # <<>> /\ s[Len(s)] = " " THEN RStrip(SubSeq(s, 1, Len(s) - 1)) ELSE s

\* str.strip()
Strip(s) == RStrip(LStrip(s))

\* needle in hay
Contains(hay, needle) ==
    \E i \in 1..(Len(hay) - Len(needle) + 1) :
        SubSeq(hay, i, i + Len(needle) - 1) = needle

\* column.ilike("%" + needle + "%"): case-insensitive containment
ILikeContains(column, needle) == Contains(Lower(column), Lower(needle))

(***************************************************************************)
(* Certificate boundary detection.                                         *)
(***************************************************************************)
CertStartIndicators ==
    {"certificate of calibration", "cert #", "cert#", "serviced by",
     "serviced for", "equipment information"}

\* text: the set of phrases occurring in the page's lower-cased text
is_cert_start_page(text) == Cardinality(text \cap CertStartIndicators) >= 2

RECURSIVE SortedSeq(_)
SortedSeq(S) ==
    IF S = {} THEN <<>>
    ELSE LET lo == CHOOSE x \in S : \A y \in S : x <= y
         IN  <<lo>> \o SortedSeq(S \ {lo})

\* the splitter without its fallback: no range when no page opens a certificate
split_without_fallback(doc) ==
    LET total_pages == Len(doc)
        cert_starts ==
            SortedSeq({i \in 0..(total_pages - 1) : is_cert_start_page(doc[i + 1])})
    IN  [i \in 1..Len(cert_starts) |->
            <<cert_starts[i],
              IF i + 1 <= Len(cert_starts)
              THEN cert_starts[i + 1] - 1
              ELSE total_pages - 1>>]

\* page indexes are 0-based as in the source; pdf[i + 1] is page i
split_pdf_into_certificates(doc) ==
    LET total_pages == Len(doc)
        cert_starts ==
            SortedSeq({i \in 0..(total_pages - 1) : is_cert_start_page(doc[i + 1])})
    IN  IF total_pages = 0 THEN <<>>
        ELSE IF cert_starts = <<>> THEN << <<0, total_pages - 1>> >>
        ELSE [i \in 1..Len(cert_starts) |->
                 <<cert_starts[i],
                   IF i + 1 <= Len(cert_starts)
                   THEN cert_starts[i + 1] - 1
                   ELSE total_pages - 1>>]

\* the extraction that stops one page short of end_page
extract_pages_before_end(doc, start_page, end_page) ==
    [k \in 1..(end_page - start_page) |-> doc[start_page + k]]

\* new_doc after insert_pdf of pages start_page..end_page, one at a time
extract_cert_pages_as_pdf(doc, start_page, end_page) ==
    [k \in 1..(end_page - start_page + 1) |-> doc[start_page + k]]

(***************************************************************************)
(* Entities.  A Tool row carries the columns app.py reads and writes       *)
(* (tool_id_number among them); None and "" are both the empty value of a  *)
(* text column, since the code only tests their truthiness.                *)
(***************************************************************************)
NoId == <<>>

\* column defaults of a freshly constructed Tool
ToolDefaults ==
    [description |-> "", manufacturer |-> "", model_number |-> "",
     serial_number |-> NoId, tool_id_number |-> NoId, log_number |-> NoId,
     sticker_id |-> NoId, owner |-> "", comments |-> <<>>,
     schedule |-> "annual", custom_interval_days |-> 0,
     status |-> "active", on_backup_list |-> FALSE,
     last_calibration_date |-> NoDate, next_calibration_date |-> NoDate]

\* Tool.recalculate_next_date
recalculate_next_date(tool) ==
    [tool EXCEPT !.next_calibration_date =
        _next_cal_date(tool.last_calibration_date, tool.schedule,
                       tool.custom_interval_days)]

DueSoonDays == 30

\* Tool.refresh_status, with date.today() = day
refresh_status(tool, day) ==
    IF tool.status \in {"backup", "not_in_use", "repurposed", "retired"} THEN tool
    ELSE IF tool.next_calibration_date = NoDate THEN tool
    ELSE IF tool.next_calibration_date < day
         THEN [tool EXCEPT !.status = "overdue"]
    ELSE IF tool.next_calibration_date - day <= DueSoonDays
         THEN [tool EXCEPT !.status = "due_soon"]
    ELSE [tool EXCEPT !.status = "active"]

\* unique=True on Tool.serial_number and Tool.log_number
UniqueOK(tools) ==
    \A a, b \in DOMAIN tools :
        a # b => /\ tools[a].serial_number # tools[b].serial_number
                 /\ tools[a].log_number # tools[b].log_number

\* the next autoincrement primary key of a table keyed 1..n
NewId(table) ==
    IF DOMAIN table = {} THEN 1
    ELSE (CHOOSE x \in DOMAIN table : \A y \in DOMAIN table : y <= x) + 1

(***************************************************************************)
(* Certificates: the cert_data dictionary of parse_cal_tec_cert.           *)
(* cal_interval is the captured "<digits> <word>" text, kept as the first  *)
(* digit run (num, -1 when there is none) and whether the text contains    *)
(* "month" / "year"; empty is the empty string.                            *)
(***************************************************************************)
NoInterval == [empty |-> TRUE, num |-> -1, month |-> FALSE, year |-> FALSE]

Interval(n, unit) ==
    [empty |-> FALSE, num |-> n, month |-> unit = "month", year |-> unit = "year"]

\* the defaults of parse_cal_tec_cert's data dictionary
EmptyCert ==
    [tool_id |-> NoId, serial_number |-> NoId, manufacturer |-> "",
     model_number |-> "", description |-> "", cal_result |-> "",
     cal_date |-> NoDate, cal_due_date |-> NoDate, cal_interval |-> NoInterval]

\* determine_cert_result over the result strings a certificate can carry
determine_cert_result(cal_result_str) ==
    IF cal_result_str = "" THEN "pass"
    ELSE IF cal_result_str \in {"PASS", "PASSED", "pass"} THEN "pass"
    ELSE IF cal_result_str \in {"FAIL", "FAILED", "fail"} THEN "fail"
    ELSE IF cal_result_str \in {"LTD", "LTD.", "LIMITED"} THEN "limited"
    ELSE IF cal_result_str \in {"ADJUSTED", "ADJUSTED & PASS"} THEN "adjusted"
    ELSE "pass"

\* the inference that ends in the system-wide default
determine_schedule_default_annual(interval) ==
    IF interval.empty THEN "annual"
    ELSE IF interval.month /\ interval.num >= 0 /\ interval.num <= 1 THEN "monthly"
    ELSE IF interval.month /\ interval.num >= 0 /\ interval.num <= 3 THEN "quarterly"
    ELSE IF interval.month /\ interval.num >= 0 /\ interval.num <= 6 THEN "semiannual"
    ELSE IF interval.month /\ interval.num >= 0 /\ interval.num <= 12 THEN "annual"
    ELSE IF interval.month /\ interval.num >= 0 /\ interval.num <= 24 THEN "biennial"
    ELSE IF interval.year /\ interval.num >= 0 /\ interval.num <= 1 THEN "annual"
    ELSE IF interval.year /\ interval.num >= 0 /\ interval.num <= 2 THEN "biennial"
    ELSE "annual"

\* determine_schedule_from_interval; the month branch falls through to the
\* year branch and then to the Cal Tec Labs default
determine_schedule_from_interval(interval) ==
    IF interval.empty THEN "annual"
    ELSE IF interval.month /\ interval.num >= 0 /\ interval.num <= 1 THEN "monthly"
    ELSE IF interval.month /\ interval.num >= 0 /\ interval.num <= 3 THEN "quarterly"
    ELSE IF interval.month /\ interval.num >= 0 /\ interval.num <= 6 THEN "semiannual"
    ELSE IF interval.month /\ interval.num >= 0 /\ interval.num <= 12 THEN "annual"
    ELSE IF interval.month /\ interval.num >= 0 /\ interval.num <= 24 THEN "biennial"
    ELSE IF interval.year /\ interval.num >= 0 /\ interval.num <= 1 THEN "annual"
    ELSE IF interval.year /\ interval.num >= 0 /\ interval.num <= 2 THEN "biennial"
    ELSE "semiannual"

(***************************************************************************)
(* Identifier matching.  Query.first() on an unordered query returns any   *)
(* one of the rows that satisfy the filter, so each rule yields the set of *)
(* tools it may return.                                                    *)
(***************************************************************************)
NoMatch == [tool |-> 0, method |-> "", value |-> NoId]

Hits(tools, S, method, value) ==
    {[tool |-> t, method |-> method, value |-> value] : t \in S}

\* the rule chain with the exact serial rule tried first: the ordering fault
\* the precedence property excludes
match_serial_first(tools, cert_data) ==
    LET cert_serial == Strip(cert_data.serial_number)
        cert_tool_id == Strip(cert_data.tool_id)
        ids == DOMAIN tools
        r1 == IF cert_tool_id = NoId THEN {}
              ELSE {t \in ids : Lower(tools[t].tool_id_number) = Lower(cert_tool_id)}
        r4 == IF cert_serial = NoId THEN {}
              ELSE {t \in ids : Lower(tools[t].serial_number) = Lower(cert_serial)}
    IN  IF r4 # {} THEN Hits(tools, r4, "serial_number", cert_serial)
        ELSE IF r1 # {} THEN Hits(tools, r1, "equipment_id", cert_tool_id)
        ELSE {NoMatch}

match_cert_to_tool(tools, cert_data) ==
    LET cert_serial == Strip(cert_data.serial_number)
        cert_tool_id == Strip(cert_data.tool_id)
        ids == DOMAIN tools
        r1 == IF cert_tool_id = NoId THEN {}
              ELSE {t \in ids : Lower(tools[t].tool_id_number) = Lower(cert_tool_id)}
        r2 == IF cert_tool_id = NoId THEN {}
              ELSE {t \in ids : Lower(tools[t].sticker_id) = Lower(cert_tool_id)}
        r3 == IF cert_tool_id = NoId THEN {}
              ELSE {t \in ids : Lower(tools[t].log_number) = Lower(cert_tool_id)}
        r4 == IF cert_serial = NoId THEN {}
              ELSE {t \in ids : Lower(tools[t].serial_number) = Lower(cert_serial)}
        r5 == IF cert_tool_id = NoId \/ Len(cert_tool_id) < 3 THEN {}
              ELSE {t \in ids : ILikeContains(tools[t].tool_id_number, cert_tool_id)}
        r6 == IF cert_serial = NoId \/ Len(cert_serial) < 4 THEN {}
              ELSE {t \in ids : ILikeContains(tools[t].serial_number, cert_serial)}
    IN  IF r1 # {} THEN Hits(tools, r1, "equipment_id", cert_tool_id)
        ELSE IF r2 # {} THEN Hits(tools, r2, "sticker_id", cert_tool_id)
        ELSE IF r3 # {} THEN Hits(tools, r3, "log_number", cert_tool_id)
        ELSE IF r4 # {} THEN Hits(tools, r4, "serial_number", cert_serial)
        ELSE IF r5 # {} THEN Hits(tools, r5, "equipment_id_contains", cert_tool_id)
        ELSE IF r6 # {} THEN Hits(tools, r6, "serial_contains", cert_serial)
        ELSE {NoMatch}

(***************************************************************************)
(* Reconciliation of one certificate with a tool.                          *)
(***************************************************************************)
\* cal_date = cert_data.get("cal_date") or date.today()
CertCalDate(cert_data, day) ==
    IF cert_data.cal_date # NoDate THEN cert_data.cal_date ELSE day

\* the CalibrationRecord both flows construct
NewRecord(tool_id, cert_data, day, notes) ==
    [tool_id |-> tool_id,
     calibration_date |-> CertCalDate(cert_data, day),
     due_date |-> cert_data.cal_due_date,
     result |-> determine_cert_result(cert_data.cal_result),
     notes |-> notes]

\* notes that name the flow only
NotesFlowOnly(flow, method, value) == [flow |-> flow, method |-> "", value |-> NoId]

\* the notes of a record: the flow that wrote it and, for an automatic match,
\* the match_method text "<rule>=<value>"
Notes(flow, method, value) == [flow |-> flow, method |-> method, value |-> value]

\* the date update without its guard: the fault the monotonic rule excludes
UpdateToolDatesUnguarded(tool, cert_data, day) ==
    LET dated == [tool EXCEPT !.last_calibration_date = CertCalDate(cert_data, day)]
    IN  IF cert_data.cal_due_date # NoDate
        THEN [dated EXCEPT !.next_calibration_date = cert_data.cal_due_date]
        ELSE recalculate_next_date(dated)

\* the date update that never takes the certificate's due date
UpdateToolDatesRecomputed(tool, cert_data, day) ==
    LET cal_date == CertCalDate(cert_data, day)
    IN  IF tool.last_calibration_date = NoDate \/ cal_date > tool.last_calibration_date
        THEN recalculate_next_date([tool EXCEPT !.last_calibration_date = cal_date])
        ELSE tool

\* the date update with a guard that is not strict
UpdateToolDatesNotStrict(tool, cert_data, day) ==
    LET cal_date == CertCalDate(cert_data, day)
    IN  IF tool.last_calibration_date = NoDate \/ cal_date >= tool.last_calibration_date
        THEN LET dated == [tool EXCEPT !.last_calibration_date = cal_date]
             IN  IF cert_data.cal_due_date # NoDate
                 THEN [dated EXCEPT !.next_calibration_date = cert_data.cal_due_date]
                 ELSE recalculate_next_date(dated)
        ELSE tool

\* "Update tool calibration dates" (bulk_upload and bulk_upload_link)
UpdateToolDates(tool, cert_data, day) ==
    LET cal_date == CertCalDate(cert_data, day)
    IN  IF tool.last_calibration_date = NoDate \/ cal_date > tool.last_calibration_date
        THEN LET dated == [tool EXCEPT !.last_calibration_date = cal_date]
             IN  IF cert_data.cal_due_date # NoDate
                 THEN [dated EXCEPT !.next_calibration_date = cert_data.cal_due_date]
                 ELSE recalculate_next_date(dated)
        ELSE tool

\* the backfill that lets the certificate's manufacturer replace the tool's
BackfillToolInfoOverwriting(tool, cert_data) ==
    [tool EXCEPT
        !.tool_id_number = IF cert_data.tool_id # NoId /\ tool.tool_id_number = NoId
                           THEN cert_data.tool_id ELSE @,
        !.serial_number  = IF cert_data.serial_number # NoId /\ tool.serial_number = NoId
                           THEN cert_data.serial_number ELSE @,
        !.manufacturer   = IF cert_data.manufacturer # ""
                           THEN cert_data.manufacturer ELSE @,
        !.model_number   = IF cert_data.model_number # "" /\ tool.model_number = ""
                           THEN cert_data.model_number ELSE @,
        !.description    = IF cert_data.description # "" /\ tool.description = ""
                           THEN cert_data.description ELSE @]

\* "Update tool info if missing"
BackfillToolInfo(tool, cert_data) ==
    [tool EXCEPT
        !.tool_id_number = IF cert_data.tool_id # NoId /\ tool.tool_id_number = NoId
                           THEN cert_data.tool_id ELSE @,
        !.serial_number  = IF cert_data.serial_number # NoId /\ tool.serial_number = NoId
                           THEN cert_data.serial_number ELSE @,
        !.manufacturer   = IF cert_data.manufacturer # "" /\ tool.manufacturer = ""
                           THEN cert_data.manufacturer ELSE @,
        !.model_number   = IF cert_data.model_number # "" /\ tool.model_number = ""
                           THEN cert_data.model_number ELSE @,
        !.description    = IF cert_data.description # "" /\ tool.description = ""
                           THEN cert_data.description ELSE @]

\* "Update schedule from cert interval"
UpdateScheduleFromCert(tool, cert_data) ==
    IF ~cert_data.cal_interval.empty
    THEN [tool EXCEPT !.schedule = determine_schedule_from_interval(cert_data.cal_interval)]
    ELSE tool

\* the status update that ignores the result
UpdateStatusFromResultRefreshOnly(tool, result_code, day) == refresh_status(tool, day)

\* result_code == "fail" forces out_of_cal, otherwise the date-driven refresh
UpdateStatusFromResult(tool, result_code, day) ==
    IF result_code = "fail" THEN [tool EXCEPT !.status = "out_of_cal"]
    ELSE refresh_status(tool, day)

\* what bulk_upload does to a matched tool (app.py 1116-1144)
ReconcileMatched(tool, cert_data, day) ==
    UpdateStatusFromResult(
        UpdateScheduleFromCert(
            BackfillToolInfo(UpdateToolDates(tool, cert_data, day), cert_data),
            cert_data),
        determine_cert_result(cert_data.cal_result), day)

\* what bulk_upload_link does to the linked tool (app.py 1258-1269)
ReconcileLinked(tool, cert_data, day) ==
    UpdateStatusFromResult(
        UpdateToolDates(tool, cert_data, day),
        determine_cert_result(cert_data.cal_result), day)

(***************************************************************************)
(* The store and the unit of work.                                         *)
(***************************************************************************)
EmptyStore == [tools |-> <<>>, records |-> <<>>, attachments |-> <<>>]

\* db.session.add(row) on a table keyed by autoincrement id
AddRow(table, row) == [i \in DOMAIN table \cup {NewId(table)} |->
                          IF i \in DOMAIN table THEN table[i] ELSE row]

\* a flush that persists what it writes
FlushPersists(committed, staged) == staged

\* db.session.flush(): rows reach the transaction, not the committed store
Flush(committed, staged) == committed

\* db.session.commit()
Commit(committed, staged) == staged

\* the session is discarded: teardown after an exception, or session.rollback()
Rollback(committed, staged) == committed

\* refresh_tool_statuses, the before_request hook: refreshes every tool that
\* is not on the backup list and commits
BeforeRequest(store, day) ==
    [store EXCEPT !.tools =
        [t \in DOMAIN store.tools |->
            IF store.tools[t].on_backup_list THEN store.tools[t]
            ELSE refresh_status(store.tools[t], day)]]

\* the record and attachment rows a reconciliation adds, and the tool it updates
WithReconciled(store, tool_id, tool, cert_data, day, notes) ==
    LET rid == NewId(store.records)
    IN  [tools |-> [store.tools EXCEPT ![tool_id] = tool],
         records |-> AddRow(store.records, NewRecord(tool_id, cert_data, day, notes)),
         attachments |-> AddRow(store.attachments,
                                [tool_id |-> tool_id, calibration_record_id |-> rid,
                                 file_type |-> "cert"])]

NoEvent ==
    [op |-> "none", tool |-> 0, pre |-> ToolDefaults, cert |-> EmptyCert,
     method |-> "", outcome |-> "none"]

Event(op, tool_id, pre, cert_data, method, outcome) ==
    [op |-> op, tool |-> tool_id, pre |-> pre, cert |-> cert_data,
     method |-> method, outcome |-> outcome]

NoBatch ==
    [start |-> EmptyStore, certs |-> 0, matched |-> 0, unmatched |-> 0, results |-> <<>>]

\* a result list that keeps the linked certificates only
AppendLinkedOnly(results, matched) ==
    IF matched
    THEN Append(results, [index |-> Len(results) + 1, stored |-> Len(results) + 1,
                          matched |-> TRUE, action |-> "linked"])
    ELSE results

\* file_result["certs"].append(cert_result): the certificate's 1-based index,
\* its stored sub-document (cert_<index>_<original>), and how it ended
AppendResult(results, matched) ==
    Append(results, [index |-> Len(results) + 1, stored |-> Len(results) + 1,
                     matched |-> matched,
                     action |-> IF matched THEN "linked" ELSE "unmatched"])

\* "Count stats": the totals bulk_upload reports
BatchStats(results) ==
    [total_certs |-> Len(results),
     matched |-> Cardinality({i \in DOMAIN results : results[i].matched}),
     unmatched |-> Cardinality({i \in DOMAIN results : ~results[i].matched})]

(***************************************************************************)
(* Inputs: the forms, certificates and dates the requests are drawn from.  *)
(***************************************************************************)
MaxTools == 2
MaxBatch == 2
MaxCount == 25

D_2023_01_01 == Ordinal(2023, 1, 1)
D_2024_09_11 == Ordinal(2024, 9, 11)
D_2025_03_11 == Ordinal(2025, 3, 11)
Days == {Ordinal(2025, 2, 20)}

SN1 == <<"S", "N", "1">>
SN3 == <<"S", "N", "3">>
EQ1 == <<"1", "0", "1">>
EQ2 == <<"2", "0", "2">>

LOG1 == <<"L", "1">>
LOG2 == <<"L", "2">>
LOG3 == <<"L", "3">>

\* tool_new / tool_edit form contents: one tool (101) under three regimes
DateForms ==
    { [ToolDefaults EXCEPT
          !.serial_number = SN1, !.tool_id_number = EQ1, !.log_number = LOG1,
          !.manufacturer = "Mitutoyo", !.model_number = "M-100",
          !.description = "Micrometer",
          !.schedule = "annual", !.last_calibration_date = D_2024_09_11],
      [ToolDefaults EXCEPT
          !.serial_number = SN1, !.tool_id_number = EQ1, !.log_number = LOG1,
          !.schedule = "semiannual"],
      [ToolDefaults EXCEPT
          !.serial_number = SN1, !.tool_id_number = EQ1, !.log_number = LOG1,
          !.schedule = "custom", !.custom_interval_days = 90,
          !.last_calibration_date = D_2023_01_01, !.status = "retired"] }

\* form contents of three different tools, with and without operator-entered info
InfoForms ==
    { [ToolDefaults EXCEPT
          !.serial_number = SN1, !.tool_id_number = EQ1, !.log_number = LOG1,
          !.manufacturer = "Mitutoyo", !.model_number = "M-100",
          !.description = "Micrometer",
          !.last_calibration_date = D_2024_09_11],
      [ToolDefaults EXCEPT
          !.tool_id_number = EQ2, !.log_number = LOG2, !.manufacturer = "Fluke"],
      [ToolDefaults EXCEPT
          !.serial_number = SN3, !.log_number = LOG3, !.description = "Gauge"] }

\* a certificate with the given identifiers, tool info, result, dates, interval
Cert(id, info, res, cd, dd, iv) ==
    [tool_id |-> id[1], serial_number |-> id[2],
     manufacturer |-> info[1], model_number |-> info[2], description |-> info[3],
     cal_result |-> res, cal_date |-> cd, cal_due_date |-> dd, cal_interval |-> iv]

NoInfo == <<"", "", "">>
CertInfo == <<"Starrett", "C-200", "Caliper">>
CertDates == {NoDate, D_2023_01_01, D_2024_09_11}
CertDueDates == {NoDate, D_2025_03_11}
CertIntervals == {NoInterval, Interval(6, "month"), Interval(5, "year")}

\* certificates of tool 101 that differ in dates and interval, passing
DateCerts ==
    { Cert(<<EQ1, NoId>>, NoInfo, "PASS", cd, dd, iv) :
      cd \in CertDates, dd \in CertDueDates, iv \in CertIntervals }

\* failing certificates of tool 101
FailCerts ==
    { Cert(<<EQ1, NoId>>, NoInfo, "FAIL", cd, dd, NoInterval) :
      cd \in CertDates, dd \in CertDueDates }

\* certificates that differ in whom they identify and in the tool info they carry
InfoCerts ==
    { Cert(id, info, "PASS", D_2024_09_11, NoDate, NoInterval) :
      id \in { <<EQ1, SN3>>, <<EQ2, SN1>>, <<NoId, SN3>>, <<NoId, NoId>> },
      info \in {NoInfo, CertInfo} }

DatedCerts == DateCerts \cup FailCerts

(***************************************************************************)
(* Request handlers.  Every request first runs the before_request hook.    *)
(***************************************************************************)
pureVars == <<pdf, cert_ranges, cert_pdfs, cert, match>>

\* a handler that runs in one step on the store left by the hook
Handled(op, tool_id, pre, cert_data, method, result) ==
    /\ db' = result
    /\ session' = result
    /\ pc' = "idle"
    /\ ev' = Event(op, tool_id, pre, cert_data, method, "committed")
    /\ batch' = NoBatch
    /\ UNCHANGED <<today, pureVars>>

\* the handler raised: the session is rolled back, the hook's commit stays
Failed(op, tool_id, pre, cert_data, hooked) ==
    /\ db' = hooked
    /\ session' = hooked
    /\ pc' = "idle"
    /\ ev' = Event(op, tool_id, pre, cert_data, "", "failed")
    /\ batch' = NoBatch
    /\ UNCHANGED <<today, pureVars>>

\* any page view (GET): only the hook runs
ViewPage ==
    /\ pc = "idle"
    /\ Handled("view", 0, ToolDefaults, EmptyCert, "", BeforeRequest(db, today))

\* tool_new (POST)
ToolNew(form) ==
    LET hooked == BeforeRequest(db, today)
        tool == IF form.last_calibration_date # NoDate
                THEN recalculate_next_date(form) ELSE form
        added == [hooked EXCEPT !.tools = AddRow(hooked.tools, tool)]
    IN  /\ pc = "idle"
        /\ NewId(db.tools) <= MaxTools
        /\ IF UniqueOK(added.tools)
           THEN Handled("tool_new", NewId(db.tools), ToolDefaults, EmptyCert, "", added)
           ELSE Failed("tool_new", 0, ToolDefaults, EmptyCert, hooked)

\* tool_edit (POST): every field is taken from the form
ToolEdit(tool_id, form) ==
    LET hooked == BeforeRequest(db, today)
        tool == recalculate_next_date(
                    [form EXCEPT !.on_backup_list = hooked.tools[tool_id].on_backup_list])
        edited == [hooked EXCEPT !.tools[tool_id] = tool]
    IN  /\ pc = "idle"
        /\ tool_id \in DOMAIN db.tools
        /\ IF UniqueOK(edited.tools)
           THEN Handled("tool_edit", tool_id, ToolDefaults, EmptyCert, "", edited)
           ELSE Failed("tool_edit", tool_id, ToolDefaults, EmptyCert, hooked)

\* calibrate (POST): log a calibration by hand
Calibrate(tool_id, cal_date, result) ==
    LET hooked == BeforeRequest(db, today)
        pre == hooked.tools[tool_id]
        dated == recalculate_next_date([pre EXCEPT !.last_calibration_date = cal_date])
        tool == UpdateStatusFromResult(dated, result, today)
        logged == [hooked EXCEPT
                      !.tools[tool_id] = tool,
                      !.records = AddRow(hooked.records,
                          [tool_id |-> tool_id, calibration_date |-> cal_date,
                           due_date |-> NoDate, result |-> result,
                           notes |-> Notes("calibrate", "", NoId)])]
    IN  /\ pc = "idle"
        /\ tool_id \in DOMAIN db.tools
        /\ NewId(db.records) <= MaxRecords
        /\ Handled("calibrate", tool_id, pre,
                   [EmptyCert EXCEPT !.cal_date = cal_date], "", logged)

\* bulk_upload (POST) starts: the hook has run, nothing is staged yet
BulkUploadBegin ==
    LET hooked == BeforeRequest(db, today)
    IN  /\ pc = "idle"
        /\ db' = hooked
        /\ session' = hooked
        /\ pc' = "bulk_upload"
        /\ batch' = [NoBatch EXCEPT !.start = hooked]
        /\ ev' = Event("bulk_upload_begin", 0, ToolDefaults, EmptyCert, "", "running")
        /\ UNCHANGED <<today, pureVars>>

\* the request ends in an exception: nothing staged is committed
BulkUploadAborts(op, tool_id, pre, cert_data, staged) ==
    /\ db' = Rollback(db, staged)
    /\ session' = Rollback(db, staged)
    /\ pc' = "idle"
    /\ ev' = Event(op, tool_id, pre, cert_data, "", "failed")
    /\ UNCHANGED <<batch, today, pureVars>>

\* bulk_upload, one certificate of one file (the body of the loop at 1020):
\* parse, match, and reconcile when a tool matched
BulkUploadCert(cert_data) ==
    /\ pc = "bulk_upload"
    /\ batch.certs < MaxBatch
    /\ \E m \in match_cert_to_tool(session.tools, cert_data) :
         IF m.tool = 0
         THEN /\ batch' = [batch EXCEPT !.certs = @ + 1, !.unmatched = @ + 1,
                                        !.results = AppendResult(@, FALSE)]
              /\ ev' = Event("bulk_upload_cert", 0, ToolDefaults, cert_data, "", "unmatched")
              /\ UNCHANGED <<db, session, pc, today, pureVars>>
         ELSE LET pre == session.tools[m.tool]
                  staged == WithReconciled(session, m.tool,
                                ReconcileMatched(pre, cert_data, today), cert_data, today,
                                Notes("bulk_upload", m.method, m.value))
              IN  /\ NewId(session.records) <= MaxRecords
                  /\ IF UniqueOK(staged.tools)
                     THEN /\ db' = Flush(db, staged)
                          /\ session' = staged
                          /\ batch' = [batch EXCEPT !.certs = @ + 1, !.matched = @ + 1,
                                                    !.results = AppendResult(@, TRUE)]
                          /\ ev' = Event("bulk_upload_cert", m.tool, pre, cert_data,
                                         m.method, "linked")
                          /\ UNCHANGED <<pc, today, pureVars>>
                     ELSE \* IntegrityError at the next flush
                          BulkUploadAborts("bulk_upload_cert", m.tool, pre, cert_data, staged)

\* bulk_upload meets a file fitz cannot open: split_pdf_into_certificates raises
BulkUploadUnreadable ==
    /\ pc = "bulk_upload"
    /\ BulkUploadAborts("bulk_upload_unreadable", 0, ToolDefaults, EmptyCert, session)

\* bulk_upload, after the last file: the one commit of the batch
BulkUploadCommit ==
    /\ pc = "bulk_upload"
    /\ db' = Commit(db, session)
    /\ session' = session
    /\ pc' = "idle"
    /\ ev' = Event("bulk_upload_commit", 0, ToolDefaults, EmptyCert, "", "committed")
    /\ UNCHANGED <<batch, today, pureVars>>

\* the store fails during that commit
BulkUploadCommitFails ==
    /\ pc = "bulk_upload"
    /\ BulkUploadAborts("bulk_upload_commit", 0, ToolDefaults, EmptyCert, session)

\* the unique log number bulk_upload_link gives a tool it creates
RECURSIVE UniqueLogNumber(_, _, _)
UniqueLogNumber(tools, base, suffix) ==
    LET candidate == IF suffix = 0 THEN base ELSE base \o <<"-", ToString(suffix)>>
    IN  IF \E t \in DOMAIN tools : tools[t].log_number = candidate
        THEN UniqueLogNumber(tools, base, suffix + 1)
        ELSE candidate

\* the Tool bulk_upload_link creates from the certificate
ToolFromCert(tools, cert_data) ==
    [ToolDefaults EXCEPT
        !.description = cert_data.description,
        !.manufacturer = cert_data.manufacturer,
        !.model_number = cert_data.model_number,
        !.serial_number = cert_data.serial_number,
        !.tool_id_number = cert_data.tool_id,
        !.log_number = UniqueLogNumber(tools, <<"CERT-">> \o cert_data.tool_id, 0),
        !.schedule = determine_schedule_from_interval(cert_data.cal_interval)]

\* bulk_upload_link (POST) with tool_id: link a stored certificate to a tool
BulkUploadLink(cert_data, tool_id) ==
    LET hooked == BeforeRequest(db, today)
        pre == hooked.tools[tool_id]
    IN  /\ pc = "idle"
        /\ tool_id \in DOMAIN db.tools
        /\ NewId(db.records) <= MaxRecords
        /\ Handled("bulk_upload_link", tool_id, pre, cert_data, "",
                   WithReconciled(hooked, tool_id, ReconcileLinked(pre, cert_data, today),
                                  cert_data, today, Notes("bulk_upload_link", "", NoId)))

\* bulk_upload_link (POST) with create_new_tool = 1
BulkUploadLinkNew(cert_data) ==
    LET hooked == BeforeRequest(db, today)
        pre == ToolFromCert(hooked.tools, cert_data)
        tool_id == NewId(hooked.tools)
        added == [hooked EXCEPT !.tools = AddRow(hooked.tools, pre)]
    IN  /\ pc = "idle"
        /\ tool_id <= MaxTools
        /\ NewId(db.records) <= MaxRecords
        /\ IF UniqueOK(added.tools)
           THEN Handled("bulk_upload_link_new", tool_id, pre, cert_data, "",
                        WithReconciled(added, tool_id, ReconcileLinked(pre, cert_data, today),
                                       cert_data, today, Notes("bulk_upload_link", "", NoId)))
           ELSE Failed("bulk_upload_link_new", 0, pre, cert_data, hooked)

\* the rows of a table without those keyed in gone
DeleteRows(table, gone) == [i \in DOMAIN table \ gone |-> table[i]]

\* tool_delete (POST): the tool, and by cascade its calibrations and attachments
ToolDelete(tool_id) ==
    LET hooked == BeforeRequest(db, today)
        deleted ==
            [tools |-> DeleteRows(hooked.tools, {tool_id}),
             records |-> DeleteRows(hooked.records,
                 {r \in DOMAIN hooked.records : hooked.records[r].tool_id = tool_id}),
             attachments |-> DeleteRows(hooked.attachments,
                 {a \in DOMAIN hooked.attachments :
                     hooked.attachments[a].tool_id = tool_id})]
    IN  /\ pc = "idle"
        /\ tool_id \in DOMAIN db.tools
        /\ Handled("tool_delete", tool_id, hooked.tools[tool_id], EmptyCert, "", deleted)

\* a deletion that takes the attachment's calibration record with it
WithoutAttachmentAndRecord(store, att_id) ==
    [store EXCEPT
       !.attachments = DeleteRows(@, {att_id}),
       !.records = DeleteRows(@, {store.attachments[att_id].calibration_record_id})]

\* db.session.delete(att): the FileAttachment row only
WithoutAttachment(store, att_id) ==
    [store EXCEPT !.attachments = DeleteRows(@, {att_id})]

\* delete_attachment (POST)
DeleteAttachment(att_id) ==
    LET hooked == BeforeRequest(db, today)
    IN  /\ pc = "idle"
        /\ att_id \in DOMAIN db.attachments
        /\ Handled("delete_attachment", hooked.attachments[att_id].tool_id,
                   hooked.tools[hooked.attachments[att_id].tool_id], EmptyCert, "",
                   WithoutAttachment(hooked, att_id))

\* tool_to_backup (POST), the form's reason becoming the status
ToolToBackup(tool_id, reason) ==
    LET hooked == BeforeRequest(db, today)
    IN  /\ pc = "idle"
        /\ tool_id \in DOMAIN db.tools
        /\ Handled("tool_to_backup", tool_id, hooked.tools[tool_id], EmptyCert, "",
                   [hooked EXCEPT !.tools[tool_id] =
                       [@ EXCEPT !.on_backup_list = TRUE, !.status = reason]])

\* tool_restore (POST)
ToolRestore(tool_id) ==
    LET hooked == BeforeRequest(db, today)
    IN  /\ pc = "idle"
        /\ tool_id \in DOMAIN db.tools
        /\ Handled("tool_restore", tool_id, hooked.tools[tool_id], EmptyCert, "",
                   [hooked EXCEPT !.tools[tool_id] =
                       refresh_status([@ EXCEPT !.on_backup_list = FALSE,
                                                !.status = "active"], today)])

STATUS_CHOICES ==
    {"active", "due_soon", "overdue", "out_of_cal", "backup", "not_in_use",
     "repurposed", "retired"}

\* api_change_status (PATCH); an unknown status is answered 400, nothing changed
ApiChangeStatus(tool_id, new_status) ==
    LET hooked == BeforeRequest(db, today)
        pre == hooked.tools[tool_id]
    IN  /\ pc = "idle"
        /\ tool_id \in DOMAIN db.tools
        /\ IF new_status \in STATUS_CHOICES
           THEN Handled("api_change_status", tool_id, pre, EmptyCert, "",
                        [hooked EXCEPT !.tools[tool_id] =
                            [@ EXCEPT
                               !.status = new_status,
                               !.on_backup_list =
                                  IF new_status \in {"backup", "not_in_use",
                                                     "repurposed", "retired"}
                                  THEN TRUE ELSE @]])
           ELSE Failed("api_change_status", tool_id, pre, EmptyCert, hooked)

(***************************************************************************)
(* csv_import.  A row is the dictionary csv.DictReader yields, its cells   *)
(* stripped.  Free text is a sequence of atoms (characters or whole        *)
(* words).  The interval cell is kept as what parse_schedule reads from    *)
(* it: the first SCHEDULE_MAP key it contains and the N of a leading       *)
(* "N years"; a date cell as the marker word or the date it denotes.       *)
(***************************************************************************)
SCHEDULE_MAP ==
    [k \in {"monthly", "quarterly", "6 months", "6 month", "semiannual",
            "semi-annual", "yearly", "annual", "1 year", "12 months",
            "biennial", "24 months", "2 years", "5 years"} |->
        CASE k = "monthly" -> "monthly"
          [] k = "quarterly" -> "quarterly"
          [] k \in {"6 months", "6 month", "semiannual", "semi-annual"} -> "semiannual"
          [] k \in {"yearly", "annual", "1 year", "12 months"} -> "annual"
          [] k \in {"biennial", "24 months", "2 years"} -> "biennial"
          [] OTHER -> "custom"]

NoCsvInterval == [empty |-> TRUE, key |-> "", years |-> 0]

parse_schedule(raw) ==
    IF raw.empty THEN "annual"
    ELSE IF raw.key \in DOMAIN SCHEDULE_MAP THEN SCHEDULE_MAP[raw.key]
    ELSE IF raw.years = 1 THEN "annual"
    ELSE IF raw.years = 2 THEN "biennial"
    ELSE IF raw.years > 0 THEN "custom"
    ELSE "annual"

\* None is 0, as in custom_interval_days
parse_custom_days(raw) ==
    IF ~raw.empty /\ raw.years > 2 THEN raw.years * 365 ELSE 0

\* a date cell: the lower-cased marker word it holds, or the date it denotes
NoDateCell == [marker |-> "", date |-> NoDate]

try_parse_date(raw) ==
    IF raw.marker \in {"", "x", "missing", "not checked"} THEN NoDate ELSE raw.date

make_unique_serial(base_serial, dept, row_num, uuid) ==
    IF base_serial # NoId THEN base_serial
    ELSE <<"NOSN-", dept, "-", ToString(row_num), "-", uuid>>

make_unique_log_number(tools, dept, row_num) ==
    UniqueLogNumber(tools, <<"CSV-", dept, "-", ToString(row_num)>>, 0)

\* the status csv_import derives for a new tool
CsvToolStatus(row) ==
    LET notes_lower == Lower(row.notes)
        cert_lower == Lower(row.cert)
    IN  IF row.status_raw \in {"inactive", "retired"} THEN "retired"
        ELSE IF Contains(notes_lower, <<"missing">>) \/ row.cal_date_raw.marker = "missing"
             THEN "not_in_use"
        ELSE IF Contains(notes_lower, <<"broken">>) \/ Contains(notes_lower, <<"damaged">>)
             THEN "out_of_cal"
        ELSE IF Contains(notes_lower, <<"out of service">>) THEN "retired"
        ELSE IF Contains(notes_lower, <<"not in spec">>)
                \/ Contains(cert_lower, <<"not in spec">>) THEN "out_of_cal"
        ELSE IF Contains(notes_lower, <<"rejected">>) THEN "out_of_cal"
        ELSE IF Contains(cert_lower, <<"fail">>) THEN "out_of_cal"
        ELSE "active"

\* certificate cells that say there is no sticker
NoStickerMarks == { <<"x">>, <<"missing">>, <<"not checked">> }

NoStickerMarksNew ==
    NoStickerMarks \cup { <<"not in spec after calibration">>,
                          <<"checked but broken">>, <<"found">> }

\* the Tool csv_import builds from a row that matches no tool
ToolFromRow(tools, row, serial, row_num) ==
    LET schedule == parse_schedule(row.interval)
        tool_status == CsvToolStatus(row)
        cal_date == IF try_parse_date(row.cal_date_raw) # NoDate
                    THEN try_parse_date(row.cal_date_raw)
                    ELSE try_parse_date(row.notes_date)
        tool == [ToolDefaults EXCEPT
                    !.manufacturer = row.manufacturer,
                    !.serial_number = serial,
                    !.log_number = make_unique_log_number(tools, row.dept, row_num),
                    !.owner = row.person,
                    !.schedule = schedule,
                    !.custom_interval_days =
                        IF schedule = "custom" THEN parse_custom_days(row.interval) ELSE 0,
                    !.status = tool_status,
                    !.on_backup_list = tool_status \in {"retired", "not_in_use", "out_of_cal"},
                    !.comments = row.notes,
                    !.sticker_id = IF row.cert # <<>> /\ Lower(row.cert) \notin NoStickerMarksNew
                                   THEN row.cert ELSE NoId]
    IN  IF cal_date # NoDate
        THEN recalculate_next_date([tool EXCEPT !.last_calibration_date = cal_date])
        ELSE tool

\* what csv_import changes on the tool a row matches
UpdateFromRow(existing, row) ==
    [existing EXCEPT
        !.comments = IF row.notes # <<>> /\ ~Contains(existing.comments, row.notes)
                     THEN existing.comments
                          \o (IF existing.comments # <<>> THEN <<"\n">> ELSE <<>>)
                          \o row.notes
                     ELSE @,
        !.sticker_id = IF /\ row.cert # <<>>
                          /\ Lower(row.cert) \notin NoStickerMarks
                          /\ ~Contains(existing.sticker_id, row.cert)
                       THEN row.cert ELSE @,
        !.owner = IF row.person # "" /\ existing.owner = "" THEN row.person ELSE @]

\* a lookup that finds no tool
ExistingNever(tools, serial) == {}

\* Tool.query.filter(Tool.serial_number == serial): the tools first() may return
ExistingBySerial(tools, serial) ==
    {t \in DOMAIN tools : tools[t].serial_number = serial}

\* the event of a row: the serial it was looked up by stands in the cert slot
RowKey(serial) == [EmptyCert EXCEPT !.serial_number = serial]

\* csv_import (POST) starts: the hook has run, the file is read
CsvImportBegin ==
    LET hooked == BeforeRequest(db, today)
    IN  /\ pc = "idle"
        /\ db' = hooked
        /\ session' = hooked
        /\ pc' = "csv_import"
        /\ batch' = [NoBatch EXCEPT !.start = hooked]
        /\ ev' = Event("csv_import_begin", 0, ToolDefaults, EmptyCert, "", "running")
        /\ UNCHANGED <<today, pureVars>>

\* csv_import, one row (the body of the loop at 1435); uuid is the random
\* part of a synthesized serial
CsvImportRow(row, uuid) ==
    LET row_num == batch.certs + 2
        serial == make_unique_serial(row.asset_serial, row.dept, row_num, uuid)
        existing == ExistingBySerial(session.tools, serial)
        counted == [batch EXCEPT !.certs = @ + 1]
    IN  /\ pc = "csv_import"
        /\ batch.certs < MaxBatch
        /\ pc' = pc
        /\ UNCHANGED <<today, pureVars>>
        /\ IF row.dept = ""
           THEN /\ session' = session
                /\ batch' = counted
                /\ ev' = Event("csv_import_row", 0, ToolDefaults, EmptyCert, "", "ignored")
           ELSE IF row.asset_serial = NoId /\ row.type_model = "" /\ row.manufacturer = ""
           THEN /\ session' = session
                /\ batch' = [counted EXCEPT !.unmatched = @ + 1]
                /\ ev' = Event("csv_import_row", 0, ToolDefaults, EmptyCert, "", "skipped")
           ELSE IF existing # {}
           THEN \E t \in existing :
                  LET tool == UpdateFromRow(session.tools[t], row)
                  IN  /\ session' = [session EXCEPT !.tools[t] = tool]
                      /\ batch' = IF tool # session.tools[t]
                                  THEN [counted EXCEPT !.matched = @ + 1]
                                  ELSE [counted EXCEPT !.unmatched = @ + 1]
                      /\ ev' = Event("csv_import_row", t, session.tools[t], RowKey(serial), "",
                                     IF tool # session.tools[t] THEN "updated" ELSE "skipped")
           ELSE /\ NewId(session.tools) <= MaxTools
                /\ session' = [session EXCEPT !.tools =
                                  AddRow(@, ToolFromRow(session.tools, row, serial, row_num))]
                /\ batch' = counted
                /\ ev' = Event("csv_import_row", NewId(session.tools), ToolDefaults,
                               RowKey(serial), "", "imported")
        /\ db' = Flush(db, session')

\* csv_import, a row whose handling raises inside the per-row try: it is
\* counted as skipped and the loop continues
CsvImportRowRaises ==
    /\ pc = "csv_import"
    /\ batch.certs < MaxBatch
    /\ batch' = [batch EXCEPT !.certs = @ + 1, !.unmatched = @ + 1]
    /\ ev' = Event("csv_import_row", 0, ToolDefaults, EmptyCert, "", "error")
    /\ UNCHANGED <<db, session, pc, today, pureVars>>

\* csv_import, a row the csv reader cannot deliver (a field beyond its size
\* limit): the loop statement itself raises, outside the per-row try, and
\* the outer except rolls back
CsvImportRowUnreadable ==
    /\ pc = "csv_import"
    /\ batch.certs < MaxBatch
    /\ db' = Rollback(db, session)
    /\ session' = Rollback(db, session)
    /\ pc' = "idle"
    /\ ev' = Event("csv_import_row", 0, ToolDefaults, EmptyCert, "", "failed")
    /\ UNCHANGED <<batch, today, pureVars>>

\* csv_import, after the last row: the one commit of the batch
CsvImportCommit ==
    /\ pc = "csv_import"
    /\ db' = Commit(db, session)
    /\ session' = session
    /\ pc' = "idle"
    /\ ev' = Event("csv_import_commit", 0, ToolDefaults, EmptyCert, "", "committed")
    /\ UNCHANGED <<batch, today, pureVars>>

\* an exception outside the row handler (reading the file, the commit):
\* db.session.rollback()
CsvImportFails ==
    /\ pc = "csv_import"
    /\ db' = Rollback(db, session)
    /\ session' = Rollback(db, session)
    /\ pc' = "idle"
    /\ ev' = Event("csv_import_commit", 0, ToolDefaults, EmptyCert, "", "failed")
    /\ UNCHANGED <<batch, today, pureVars>>

\* rows of a legacy export
CsvRow(dept, maker, model, serial, interval, notes, cal, sticker) ==
    [dept |-> dept, manufacturer |-> maker, type_model |-> model,
     asset_serial |-> serial, interval |-> interval, status_raw |-> "",
     person |-> "Ann", notes |-> notes, notes_date |-> NoDateCell,
     cal_date_raw |-> cal, cert |-> sticker]

CsvRows ==
    { CsvRow("QA", "Mitutoyo", "Micrometer", SN1, NoCsvInterval, <<"ok">>,
             [marker |-> "date", date |-> D_2023_01_01], <<"K", "1">>),
      CsvRow("QA", "", "Gauge", NoId, [empty |-> FALSE, key |-> "", years |-> 3],
             <<"broken">>, [marker |-> "missing", date |-> NoDate], <<"x">>),
      CsvRow("QA", "", "", NoId, NoCsvInterval, <<>>, NoDateCell, <<>>),
      CsvRow("", "", "", NoId, NoCsvInterval, <<>>, NoDateCell, <<>>) }

\* the forms and certificates that accompany the rows
BatchForms ==
    { [ToolDefaults EXCEPT
          !.serial_number = SN1, !.tool_id_number = EQ1, !.log_number = LOG1,
          !.sticker_id = <<"K", "9">>, !.owner = "Bob",
          !.last_calibration_date = D_2024_09_11],
      [ToolDefaults EXCEPT !.tool_id_number = EQ2, !.log_number = LOG2] }

BatchCerts ==
    { Cert(<<EQ1, NoId>>, NoInfo, "PASS", NoDate, D_2025_03_11, NoInterval),
      Cert(<<EQ2, SN1>>, CertInfo, "FAIL", D_2024_09_11, NoDate, NoInterval),
      Cert(<<NoId, NoId>>, NoInfo, "PASS", D_2024_09_11, NoDate, NoInterval) }

(***************************************************************************)
(* The application.                                                        *)
(***************************************************************************)
PureIdle ==
    /\ pdf = <<>>
    /\ cert_ranges = <<>>
    /\ cert_pdfs = <<>>
    /\ cert = EmptyCert
    /\ match = NoMatch

Init ==
    /\ db = EmptyStore
    /\ session = EmptyStore
    /\ pc = "idle"
    /\ batch = NoBatch
    /\ today \in Days
    /\ ev = NoEvent
    /\ PureIdle

\* the tool pages, over given form contents
ToolRequests(forms) ==
    \/ ViewPage
    \/ \E form \in forms : ToolNew(form)
    \/ \E t \in 1..MaxTools, form \in forms : ToolEdit(t, form)
    \/ \E t \in 1..MaxTools, d \in {D_2023_01_01, D_2024_09_11}, r \in {"pass", "fail"} :
          Calibrate(t, d, r)

\* certificate upload and manual link, over given certificates
CertRequests(certs) ==
    \/ BulkUploadBegin
    \/ \E c \in certs : BulkUploadCert(c)
    \/ BulkUploadUnreadable
    \/ BulkUploadCommit
    \/ BulkUploadCommitFails
    \/ \E c \in certs, t \in 1..MaxTools : BulkUploadLink(c, t)
    \/ \E c \in certs : BulkUploadLinkNew(c)

\* legacy import, over given rows
CsvRequests(rows) ==
    \/ CsvImportBegin
    \/ \E row \in rows, uuid \in {"a1", "b2"} : CsvImportRow(row, uuid)
    \/ CsvImportRowRaises
    \/ CsvImportRowUnreadable
    \/ CsvImportCommit
    \/ CsvImportFails

\* one tool under changing dates and schedules, and its certificates
Next == ToolRequests(DateForms) \/ CertRequests(DatedCerts)

Spec == Init /\ [][Next]_vars

\* several tools with and without operator-entered info
NextInfo == ToolRequests(InfoForms) \/ CertRequests(InfoCerts)

SpecInfo == Init /\ [][NextInfo]_vars

\* both kinds of batch, on tools entered by hand or imported
NextBatch ==
    \/ ViewPage
    \/ \E form \in BatchForms : ToolNew(form)
    \/ CertRequests(BatchCerts)
    \/ CsvRequests(CsvRows)

SpecBatch == Init /\ [][NextBatch]_vars

\* tool creation, calibration logging, deletions, the backup list and the
\* status API, with the uploads of certificates that name a tool
NextAdmin ==
    \/ ViewPage
    \/ \E form \in BatchForms : ToolNew(form)
    \/ \E t \in 1..MaxTools, r \in {"pass", "fail"} : Calibrate(t, D_2024_09_11, r)
    \/ CertRequests({c \in BatchCerts : c.tool_id # NoId})
    \/ \E t \in 1..MaxTools : ToolDelete(t)
    \/ \E a \in 1..MaxRecords : DeleteAttachment(a)
    \/ \E t \in 1..MaxTools : ToolToBackup(t, "backup")
    \/ \E t \in 1..MaxTools : ToolRestore(t)
    \/ \E t \in 1..MaxTools, st \in {"active", "retired", "unknown"} :
          ApiChangeStatus(t, st)

SpecAdmin == Init /\ [][NextAdmin]_vars

(***************************************************************************)
(* split_pdf_into_certificates applied to documents of up to MaxPages      *)
(* pages; a page carries no, one or two of the start-of-certificate        *)
(* phrases.                                                                *)
(***************************************************************************)
PageTexts ==
    { {}, {"certificate of calibration"}, {"certificate of calibration", "cert #"} }

\* the 12-page document whose boundary pages are 2, 5 and 9
Doc12 ==
    [i \in 1..12 |-> IF i - 1 \in {2, 5, 9}
                     THEN {"certificate of calibration", "cert #"} ELSE {}]

Documents == UNION { [1..n -> PageTexts] : n \in 0..MaxPages } \cup {Doc12}

MainIdle ==
    /\ db = EmptyStore
    /\ session = EmptyStore
    /\ batch = NoBatch
    /\ today \in Days
    /\ ev = NoEvent

InitSplit ==
    /\ MainIdle
    /\ pc = "split"
    /\ pdf \in Documents
    /\ cert_ranges = <<>>
    /\ cert_pdfs = <<>>
    /\ cert = EmptyCert
    /\ match = NoMatch

SplitPdf ==
    /\ pc = "split"
    /\ cert_ranges' = split_pdf_into_certificates(pdf)
    /\ pc' = "split_done"
    /\ UNCHANGED <<db, session, batch, today, ev, pdf, cert_pdfs, cert, match>>

\* bulk_upload's loop over cert_ranges, the extraction of the next range
ExtractCertPages ==
    /\ pc = "split_done"
    /\ Len(cert_pdfs) < Len(cert_ranges)
    /\ LET r == cert_ranges[Len(cert_pdfs) + 1]
       IN  cert_pdfs' = Append(cert_pdfs, extract_cert_pages_as_pdf(pdf, r[1], r[2]))
    /\ UNCHANGED <<db, session, pc, batch, today, ev, pdf, cert_ranges, cert, match>>

NextSplit == SplitPdf \/ ExtractCertPages

SpecSplit == InitSplit /\ [][NextSplit]_vars

(***************************************************************************)
(* match_cert_to_tool applied to stores of up to two tools.                *)
(***************************************************************************)
ID_ab == <<"a", "b">>
ID_abc == <<"a", "b", "c">>
ID_abcd == <<"a", "b", "c", "d">>
ID_ABC == <<"A", "B", "C">>
ID_XABCX == <<"X", "A", "B", "C", "X">>
ID_ABCD == <<"A", "B", "C", "D">>
ID_XABCDX == <<"X", "A", "B", "C", "D", "X">>

MatchTools(log, serial) ==
    { [ToolDefaults EXCEPT !.tool_id_number = e, !.sticker_id = k,
                           !.log_number = l, !.serial_number = n] :
      e \in {NoId, ID_ABC, ID_XABCX}, k \in {NoId, ID_ABC},
      l \in {log, ID_ABC}, n \in {serial, ID_ABC, ID_ABCD, ID_XABCDX} }

MatchStores ==
    { ts \in {<<>>} \cup { <<a>> : a \in MatchTools(LOG1, SN1) }
              \cup { <<a, b>> : a \in MatchTools(LOG1, SN1), b \in MatchTools(LOG2, SN3) } :
      UniqueOK(ts) }

MatchCerts ==
    { [EmptyCert EXCEPT !.tool_id = e, !.serial_number = n] :
      e \in {NoId, ID_ab, ID_abc}, n \in {NoId, ID_abc, ID_abcd} }

InitMatch ==
    /\ \E ts \in MatchStores :
          /\ db = [EmptyStore EXCEPT !.tools = ts]
          /\ session = [EmptyStore EXCEPT !.tools = ts]
    /\ batch = NoBatch
    /\ today \in Days
    /\ ev = NoEvent
    /\ pc = "match"
    /\ pdf = <<>>
    /\ cert_ranges = <<>>
    /\ cert_pdfs = <<>>
    /\ cert \in MatchCerts
    /\ match = NoMatch

MatchCert ==
    /\ pc = "match"
    /\ match' \in match_cert_to_tool(session.tools, cert)
    /\ pc' = "match_done"
    /\ UNCHANGED <<db, session, batch, today, ev, pdf, cert_ranges, cert_pdfs, cert>>

NextMatch == MatchCert

SpecMatch == InitMatch /\ [][NextMatch]_vars

(***************************************************************************)
(* Properties.                                                             *)
(***************************************************************************)
\* the last step reconciled a certificate with tool ev.tool
Reconciled ==
    \/ ev.op = "bulk_upload_cert" /\ ev.outcome = "linked"
    \/ ev.op \in {"bulk_upload_link", "bulk_upload_link_new"} /\ ev.outcome = "committed"

\* the tool as the reconciliation left it
Post == session.tools[ev.tool]

\* C1: a certificate reconciliation (automatic or manual link) never moves
\* the tool's last_calibration_date backwards: the date changes only when it
\* was absent or the certificate's date is strictly later, and then it
\* becomes the certificate's date.
C1_LastDateMonotonic ==
    Reconciled =>
        LET cal_date == CertCalDate(ev.cert, today)
            before == ev.pre.last_calibration_date
        IN  /\ before # NoDate => Post.last_calibration_date >= before
            /\ Post.last_calibration_date # before =>
                  /\ before = NoDate \/ cal_date > before
                  /\ Post.last_calibration_date = cal_date

\* a tool last calibrated 2024-09-11 received a certificate dated 2023-01-01
C1_OlderCertLeavesDate ==
    /\ Reconciled
    /\ ev.pre.last_calibration_date = D_2024_09_11
    /\ ev.cert.cal_date = D_2023_01_01
    /\ Post.last_calibration_date = D_2024_09_11

\* what each rule of the chain compares, in priority order
MatchRules ==
    << [tag |-> "equipment_id", field |-> "tool_id_number", id |-> "tool_id",
        exact |-> TRUE, min |-> 1],
       [tag |-> "sticker_id", field |-> "sticker_id", id |-> "tool_id",
        exact |-> TRUE, min |-> 1],
       [tag |-> "log_number", field |-> "log_number", id |-> "tool_id",
        exact |-> TRUE, min |-> 1],
       [tag |-> "serial_number", field |-> "serial_number", id |-> "serial_number",
        exact |-> TRUE, min |-> 1],
       [tag |-> "equipment_id_contains", field |-> "tool_id_number", id |-> "tool_id",
        exact |-> FALSE, min |-> 3],
       [tag |-> "serial_contains", field |-> "serial_number", id |-> "serial_number",
        exact |-> FALSE, min |-> 4] >>

\* rule k hits tool t for the certificate
RuleHits(k, t, cert_data) ==
    LET rule == MatchRules[k]
        value == Strip(cert_data[rule.id])
        column == Lower(t[rule.field])
    IN  /\ Len(value) >= rule.min
        /\ IF rule.exact THEN column = Lower(value)
           ELSE Contains(column, Lower(value))

\* the rules that hit some tool of the store
RulesWithHit(tools, cert_data) ==
    {k \in 1..6 : \E t \in DOMAIN tools : RuleHits(k, tools[t], cert_data)}

PagesOf(ranges) == UNION { ranges[i][1]..ranges[i][2] : i \in DOMAIN ranges }

\* C3: for a document of n >= 1 pages the ranges returned are ordered,
\* non-empty, disjoint and contiguous, and their union is pages 0..n-1.
C3_SplitCoversDocument ==
    (pc = "split_done" /\ Len(pdf) >= 1) =>
        /\ Len(cert_ranges) >= 1
        /\ cert_ranges[1][1] = 0
        /\ cert_ranges[Len(cert_ranges)][2] = Len(pdf) - 1
        /\ \A i \in DOMAIN cert_ranges : cert_ranges[i][1] <= cert_ranges[i][2]
        /\ \A i \in 1..(Len(cert_ranges) - 1) :
              cert_ranges[i + 1][1] = cert_ranges[i][2] + 1
        /\ PagesOf(cert_ranges) = 0..(Len(pdf) - 1)

\* the tool columns the backfill may fill, with the certificate field of each
BackfillFields ==
    { <<"tool_id_number", "tool_id">>, <<"serial_number", "serial_number">>,
      <<"manufacturer", "manufacturer">>, <<"model_number", "model_number">>,
      <<"description", "description">> }

\* C6: a certificate import changes the tool's tool-id number, serial number,
\* manufacturer, model number or description only when the tool's value was
\* empty, and then to the certificate's value; the automatic match fills
\* every such empty field the certificate states.
C6_BackfillOnlyEmpty ==
    Reconciled =>
        \A f \in BackfillFields :
            /\ Post[f[1]] # ev.pre[f[1]] =>
                  /\ ev.pre[f[1]] = ToolDefaults[f[1]]
                  /\ Post[f[1]] = ev.cert[f[2]]
            /\ ( /\ ev.op = "bulk_upload_cert"
                 /\ ev.pre[f[1]] = ToolDefaults[f[1]]
                 /\ ev.cert[f[2]] # EmptyCert[f[2]] )
               => Post[f[1]] = ev.cert[f[2]]

\* a matched tool kept its manufacturer against a certificate stating another
\* one, and had its empty model number filled
C6_KeptAndFilled ==
    /\ ev.op = "bulk_upload_cert" /\ ev.outcome = "linked"
    /\ ev.pre.manufacturer = "Fluke" /\ ev.cert.manufacturer = "Starrett"
    /\ Post.manufacturer = "Fluke"
    /\ ev.pre.model_number = "" /\ Post.model_number = "C-200"

\* the reconciliation applied the certificate's date to the tool
DateApplied ==
    \/ ev.pre.last_calibration_date = NoDate
    \/ CertCalDate(ev.cert, today) > ev.pre.last_calibration_date

\* C7 as stated: after any reconciliation next_calibration_date is the
\* certificate's due date when it states one, and otherwise the date
\* recomputed from the tool's last_calibration_date and schedule.
C7_NextDateFromCert ==
    Reconciled =>
        IF ev.cert.cal_due_date # NoDate
        THEN Post.next_calibration_date = ev.cert.cal_due_date
        ELSE Post.next_calibration_date =
                _next_cal_date(Post.last_calibration_date, Post.schedule,
                               Post.custom_interval_days)

\* C7 amended: when the certificate's date is applied (the tool had no last
\* date or the certificate's date is strictly later) next_calibration_date is
\* the certificate's due date when it states one, and otherwise the date
\* computed from the new last date and the schedule the tool had before the
\* reconciliation; when the date is not applied next_calibration_date is
\* unchanged.
C7_NextDateWhenDateApplied ==
    Reconciled =>
        IF DateApplied
        THEN IF ev.cert.cal_due_date # NoDate
             THEN Post.next_calibration_date = ev.cert.cal_due_date
             ELSE Post.next_calibration_date =
                     _next_cal_date(CertCalDate(ev.cert, today), ev.pre.schedule,
                                    ev.pre.custom_interval_days)
        ELSE Post.next_calibration_date = ev.pre.next_calibration_date

\* a later certificate stating a due date replaced a different next date
C7_DueDateTaken ==
    /\ Reconciled
    /\ ev.pre.last_calibration_date # NoDate
    /\ DateApplied
    /\ ev.cert.cal_due_date # NoDate
    /\ ev.pre.next_calibration_date # ev.cert.cal_due_date
    /\ Post.next_calibration_date = ev.cert.cal_due_date

\* C8: an import that changes the tool's schedule (the schedule inferred from
\* the certificate's interval) leaves next_calibration_date equal to the
\* value derived from last_calibration_date and the schedule; stated for
\* certificates without a due date of their own.
C8_InferredScheduleRecomputes ==
    ( /\ Reconciled
      /\ ev.cert.cal_due_date = NoDate
      /\ Post.schedule # ev.pre.schedule )
    => Post.next_calibration_date =
          _next_cal_date(Post.last_calibration_date, Post.schedule,
                         Post.custom_interval_days)

\* the statuses Tool.refresh_status leaves alone
ManualStatuses == {"backup", "not_in_use", "repurposed", "retired"}

\* the status the dates alone call for
DateStatus(next_date, day) ==
    IF next_date < day THEN "overdue"
    ELSE IF next_date - day <= 30 THEN "due_soon"
    ELSE "active"

\* C9 as stated: after a reconciliation the status is out_of_cal when the
\* result is fail, and otherwise overdue / due_soon / active as its
\* next_calibration_date calls for.
C9_StatusFromResultAndDates ==
    Reconciled =>
        IF determine_cert_result(ev.cert.cal_result) = "fail"
        THEN Post.status = "out_of_cal"
        ELSE Post.next_calibration_date # NoDate =>
                Post.status = DateStatus(Post.next_calibration_date, today)

\* C9 amended: a fail result gives out_of_cal whatever the dates and the
\* previous status; otherwise a tool whose status is backup, not_in_use,
\* repurposed or retired, or that has no next_calibration_date, keeps its
\* status, and any other tool gets the status its dates call for.
C9_StatusAfterReconcile ==
    Reconciled =>
        IF determine_cert_result(ev.cert.cal_result) = "fail"
        THEN Post.status = "out_of_cal"
        ELSE IF ev.pre.status \in ManualStatuses \/ Post.next_calibration_date = NoDate
        THEN Post.status = ev.pre.status
        ELSE Post.status = DateStatus(Post.next_calibration_date, today)

\* a retired tool received a failing certificate and became out_of_cal
C9_RetiredToolFails ==
    /\ Reconciled
    /\ determine_cert_result(ev.cert.cal_result) = "fail"
    /\ ev.pre.status = "retired"
    /\ Post.status = "out_of_cal"

\* C10: reconciling a certificate whose date equals the tool's
\* last_calibration_date leaves last_calibration_date and
\* next_calibration_date unchanged.
C10_ReimportLeavesDates ==
    ( /\ Reconciled
      /\ ev.cert.cal_date # NoDate
      /\ ev.cert.cal_date = ev.pre.last_calibration_date )
    => /\ Post.last_calibration_date = ev.pre.last_calibration_date
       /\ Post.next_calibration_date = ev.pre.next_calibration_date

\* a certificate of the tool's own last date, stating a due date other than
\* the tool's next date, was reconciled
C10_SameDateReimported ==
    /\ Reconciled
    /\ ev.cert.cal_date # NoDate
    /\ ev.cert.cal_date = ev.pre.last_calibration_date
    /\ ev.cert.cal_due_date # NoDate
    /\ ev.cert.cal_due_date # ev.pre.next_calibration_date
    /\ Post.next_calibration_date = ev.pre.next_calibration_date

\* the steps at which a batch can fail
BatchFailure ==
    /\ ev.outcome = "failed"
    /\ ev.op \in {"bulk_upload_cert", "bulk_upload_unreadable", "bulk_upload_commit",
                  "csv_import_row", "csv_import_commit"}

\* C4: while a batch (bulk_upload or csv_import) runs nothing it staged is
\* persistent; its one commit makes everything staged persistent together;
\* and when it fails before or during the commit the store is as it was
\* when the batch started.
C4_BatchAtomic ==
    /\ pc \in {"bulk_upload", "csv_import"} => db = batch.start
    /\ BatchFailure => db = batch.start /\ session = batch.start
    /\ ( /\ ev.op \in {"bulk_upload_commit", "csv_import_commit"}
         /\ ev.outcome = "committed" )
       => db = session

\* the commit of a bulk_upload failed after a certificate had been reconciled
\* and the store is as it was before the batch
C4_FailedBatchLeftNothing ==
    /\ ev.op = "bulk_upload_commit" /\ ev.outcome = "failed"
    /\ batch.matched >= 1
    /\ db = batch.start
    /\ batch.start.records = <<>>

\* C5: a file of a bulk_upload that cannot be opened or split is a failure
\* of that file only: the batch goes on to its other files and its commit.
C5_UnreadableFileContained ==
    ev.op = "bulk_upload_unreadable" => pc = "bulk_upload" /\ ev.outcome # "failed"

\* C11: a reconciliation whose certificate date is not strictly later than
\* the tool's last_calibration_date leaves the tool's schedule, custom
\* interval and next_calibration_date as they were.
C11_OlderCertKeepsSchedule ==
    ( /\ Reconciled
      /\ ev.pre.last_calibration_date # NoDate
      /\ ~DateApplied )
    => /\ Post.schedule = ev.pre.schedule
       /\ Post.custom_interval_days = ev.pre.custom_interval_days
       /\ Post.next_calibration_date = ev.pre.next_calibration_date

\* C12: creating a tool from a certificate in bulk_upload_link never fails
\* on a uniqueness violation of the serial number or log number it gives
\* the tool.
C12_LinkNewNeverCollides ==
    ev.op = "bulk_upload_link_new" => ev.outcome # "failed"

\* the last step was a csv_import row that matched tool ev.tool
RowMatched == ev.op = "csv_import_row" /\ ev.outcome \in {"updated", "skipped"} /\ ev.tool # 0

\* C13: a CSV row that matches an existing tool changes nothing but its
\* comments (by appending), and its sticker_id and owner when they were
\* empty.
C13_CsvUpdateNeverOverwrites ==
    RowMatched =>
        /\ Post = [ev.pre EXCEPT !.comments = Post.comments,
                                 !.sticker_id = Post.sticker_id,
                                 !.owner = Post.owner]
        /\ SubSeq(Post.comments, 1, Len(ev.pre.comments)) = ev.pre.comments
        /\ Post.sticker_id # ev.pre.sticker_id => ev.pre.sticker_id = NoId
        /\ Post.owner # ev.pre.owner => ev.pre.owner = ""

\* C14: a row whose serial number (given, or synthesized by a fixed
\* generator) is that of a tool in the store creates no tool; a row creates
\* a tool only under a serial number no tool has, and that tool is the one
\* tool added.
C14_SerialDecidesCreation ==
    [][ ev'.op = "csv_import_row" /\ ev'.outcome \in {"imported", "updated"} =>
          IF \E t \in DOMAIN session.tools :
                session.tools[t].serial_number = ev'.cert.serial_number
          THEN /\ DOMAIN session'.tools = DOMAIN session.tools
               /\ ev'.outcome = "updated"
          ELSE /\ DOMAIN session'.tools = DOMAIN session.tools \cup {ev'.tool}
               /\ ev'.tool \notin DOMAIN session.tools
               /\ session'.tools[ev'.tool].serial_number = ev'.cert.serial_number
               /\ \A t \in DOMAIN session.tools :
                     session'.tools[t] = session.tools[t] ]_vars

\* a serial-less row imported again, at the same place and with the same
\* generated suffix, found the tool its first import created
C14_SynthesizedSerialFoundAgain ==
    /\ ev.op = "csv_import_row" /\ ev.outcome = "skipped" /\ ev.tool # 0
    /\ Len(ev.cert.serial_number) = 6
    /\ ev.cert.serial_number[1] = "NOSN-"
    /\ Post.serial_number = ev.cert.serial_number

\* C15: a bad row of a CSV file never ends the import: after any row step
\* the import is still running and nothing has been rolled back.
C15_BadRowNeverAborts ==
    ev.op = "csv_import_row" => pc = "csv_import" /\ ev.outcome # "failed"


(***************************************************************************)
(* Uploaded documents as text.  A page is the set of indicator phrases in  *)
(* its text and, for each label the parser looks for, the first token the  *)
(* label's pattern captures on the page (empty when the pattern does not   *)
(* match there); for Calibration Result it is the word after the label,    *)
(* which the pattern accepts only when it is one of its alternatives.      *)
(* The pages carry no other label of the parser.                           *)
(***************************************************************************)
Page(phrases, serial, result, due, cal) ==
    [phrases |-> phrases, serial_number |-> serial, cal_result |-> result,
     cal_due_date |-> due, cal_date |-> cal]

\* the text of the first page of the range only
cert_text_first_page(doc, start_page, end_page) == <<doc[start_page + 1]>>

\* bulk_upload, text of one certificate: its pages' text, concatenated in order
cert_text(doc, start_page, end_page) == SubSeq(doc, start_page + 1, end_page + 1)

\* datetime.strptime(s, "%m/%d/%Y").date() over a matched \d{1,2}/\d{1,2}/\d{4};
\* ValueError leaves the field None
strptime_mdy(mdy) ==
    IF /\ mdy[1] \in 1..12
       /\ mdy[3] >= 1
       /\ mdy[2] \in 1..DaysInMonth(mdy[3], mdy[1])
    THEN Ordinal(mdy[3], mdy[1], mdy[2])
    ELSE NoDate

\* parse_cal_tec_cert: re.search takes the first match in the text
parse_cal_tec_cert(text) ==
    LET First(field, none) ==
            IF \E i \in 1..Len(text) : text[i][field] # none
            THEN text[CHOOSE i \in 1..Len(text) :
                        /\ text[i][field] # none
                        /\ \A j \in 1..(i - 1) : text[j][field] = none][field]
            ELSE none
        serial == Strip(First("serial_number", <<>>))
        word == [i \in 1..Len(text) |->
                    LET w == text[i].cal_result
                    IN  IF w \in {"PASS", "Pass", "pass"} THEN "PASS"
                        ELSE IF w \in {"FAIL", "Fail", "fail"} THEN "FAIL"
                        ELSE IF w \in {"LTD", "Ltd", "ltd"} THEN "LTD"
                        ELSE IF w \in {"LTD.", "Ltd.", "ltd."} THEN "LTD."
                        ELSE IF w \in {"LIMITED", "Limited", "limited"} THEN "LIMITED"
                        ELSE ""]
        result == IF \E i \in 1..Len(text) : word[i] # ""
                  THEN word[CHOOSE i \in 1..Len(text) :
                              /\ word[i] # ""
                              /\ \A j \in 1..(i - 1) : word[j] = ""]
                  ELSE ""
        due == First("cal_due_date", <<>>)
        cal == First("cal_date", <<>>)
    IN  [EmptyCert EXCEPT
           !.serial_number =
               IF Lower(serial) \in
                     { <<"c", "a", "l", "i", "b", "r", "a", "t", "i", "o", "n">>,
                       <<"c", "a", "l">>, <<"c", "a", "l", ".">>,
                       <<"n", "/", "a">>, <<"n", "o", "n", "e">>, <<>> }
               THEN NoId ELSE serial,
           !.cal_result = result,
           !.cal_due_date = IF due = <<>> THEN NoDate ELSE strptime_mdy(due),
           !.cal_date = IF cal = <<>> THEN NoDate ELSE strptime_mdy(cal)]

ABC123 == <<"A", "B", "C", "1", "2", "3">>
D_2026_01_01 == Ordinal(2026, 1, 1)

\* two-page documents whose first page opens a certificate and whose text
\* holds Serial Number: ABC123, Calibration Result: PASS, Cal Due Date: 01/01/2026
ScenarioDocs ==
    { << Page({"certificate of calibration", "cert #"}, ABC123, "PASS",
              <<1, 1, 2026>>, <<>>),
         Page({}, <<>>, "", <<>>, <<>>) >>,
      << Page({"certificate of calibration", "cert #"}, ABC123, "", <<>>, <<>>),
         Page({}, <<>>, "PASS", <<1, 1, 2026>>, <<>>) >> }

\* the scenario's documents, one holding two other certificates, and a
\* one-page certificate whose result reads REJECTED
UploadDocs ==
    ScenarioDocs \cup
    { << Page({"certificate of calibration", "serviced by"}, <<"N", "/", "A">>,
              "Fail", <<2, 30, 2025>>, <<9, 11, 2024>>),
         Page({"cert #", "equipment information"}, ABC123, "FAIL", <<>>, <<>>) >>,
      << Page({"certificate of calibration", "cert #"}, ABC123, "REJECTED",
              <<>>, <<9, 11, 2024>>) >> }

\* what bulk_upload parses out of those documents, one certificate per range
UploadCerts ==
    { parse_cal_tec_cert(cert_text(doc, r[1], r[2])) :
        <<doc, r>> \in
          { <<d, rg>> \in UploadDocs \X ((0..1) \X (0..1)) :
              LET ranges == split_pdf_into_certificates(
                                [i \in 1..Len(d) |-> d[i].phrases])
              IN  \E k \in 1..Len(ranges) : ranges[k] = rg } }

\* the tool ABC123 as the operator may have entered it, and another tool
UploadForms ==
    { [ToolDefaults EXCEPT !.serial_number = ABC123, !.log_number = LOG1],
      [ToolDefaults EXCEPT !.serial_number = ABC123, !.log_number = LOG1,
          !.last_calibration_date = D_2023_01_01],
      [ToolDefaults EXCEPT !.serial_number = ABC123, !.log_number = LOG1,
          !.last_calibration_date = Ordinal(2025, 2, 20)],
      [ToolDefaults EXCEPT !.serial_number = ABC123, !.log_number = LOG1,
          !.last_calibration_date = D_2024_09_11, !.status = "retired"],
      [ToolDefaults EXCEPT !.serial_number = SN1, !.log_number = LOG2] }

NextUpload == ToolRequests(UploadForms) \/ CertRequests(UploadCerts)

SpecUpload == Init /\ [][NextUpload]_vars

\* the certificate bulk_upload reads out of a scenario document
ScenarioCert(doc) == parse_cal_tec_cert(cert_text(doc, 0, Len(doc) - 1))

\* this step is bulk_upload handling the certificate of the scenario
\* document while a tool with serial number ABC123 exists
ScenarioStep(doc) ==
    /\ ev'.op = "bulk_upload_cert"
    /\ ev'.cert = ScenarioCert(doc)
    /\ \E t \in DOMAIN session.tools : session.tools[t].serial_number = ABC123

\* the document is one certificate (pages 0 to 1), read as ABC123 / PASS /
\* 2026-01-01, and the step adds exactly one CalibrationRecord: for the
\* tool ABC123, with result pass and due_date 2026-01-01
ScenarioRecord(doc) ==
    /\ split_pdf_into_certificates([i \in 1..Len(doc) |-> doc[i].phrases])
          = << <<0, 1>> >>
    /\ ScenarioCert(doc).serial_number = ABC123
    /\ ScenarioCert(doc).cal_result = "PASS"
    /\ ScenarioCert(doc).cal_due_date = D_2026_01_01
    /\ ev'.outcome = "linked"
    /\ session.tools[ev'.tool].serial_number = ABC123
    /\ \E r \in DOMAIN session'.records \ DOMAIN session.records :
          /\ DOMAIN session'.records = DOMAIN session.records \cup {r}
          /\ session'.records[r].tool_id = ev'.tool
          /\ session'.records[r].result = "pass"
          /\ session'.records[r].due_date = D_2026_01_01
    /\ \A r \in DOMAIN session.records : session'.records[r] = session.records[r]

C17_ExtractRoundTrip ==
    \A k \in 1..Len(cert_pdfs) :
        LET start == cert_ranges[k][1]
            end == cert_ranges[k][2]
        IN  /\ Len(cert_pdfs[k]) = end - start + 1
            /\ \A i \in 0..(end - start) : cert_pdfs[k][i + 1] = pdf[start + i + 1]

\* every range of a document of several certificates was extracted, one of
\* them of two pages with different text, the second starting after page 0
C17_AllRangesExtracted ==
    /\ Len(cert_ranges) >= 2
    /\ Len(cert_pdfs) = Len(cert_ranges)
    /\ cert_ranges[2][1] > 0
    /\ \E k \in 1..Len(cert_pdfs) :
          /\ Len(cert_pdfs[k]) = 2
          /\ cert_pdfs[k][1] # cert_pdfs[k][2]

\* C18: a document of at least one page none of whose pages is detected as
\* a boundary page is returned as exactly one range, page 0 to the last page.
C18_NoBoundaryOneRange ==
    ( /\ pc = "split_done"
      /\ Len(pdf) >= 1
      /\ \A i \in 1..Len(pdf) : ~is_cert_start_page(pdf[i]) )
    => cert_ranges = << <<0, Len(pdf) - 1>> >>

\* a three-page document with one indicator on a page, not enough for a
\* boundary, came back as the range 0..2
C18_WholeDocumentKept ==
    /\ pc = "split_done"
    /\ Len(pdf) = 3
    /\ \E i \in 1..3 : pdf[i] # {}
    /\ \A i \in 1..3 : ~is_cert_start_page(pdf[i])
    /\ cert_ranges = << <<0, 2>> >>

\* C19: a certificate interval of N years with N > 2 leaves the reconciled
\* tool with schedule custom and custom_interval_days = N x 365 (1825 for
\* "5 years").
C19_LongIntervalIsCustom ==
    ( /\ ev.op = "bulk_upload_cert"
      /\ ev.outcome = "linked"
      /\ ev.cert.cal_interval.year
      /\ ~ev.cert.cal_interval.month
      /\ ev.cert.cal_interval.num > 2 )
    => /\ Post.schedule = "custom"
       /\ Post.custom_interval_days = ev.cert.cal_interval.num * 365

(***************************************************************************)
(* determine_schedule_from_interval applied to interval texts.             *)
(***************************************************************************)
\* non-empty interval strings: with or without a digit run (counts up to
\* MaxCount), containing "month", "year", both or neither
IntervalTexts ==
    [empty : {FALSE}, num : -1..MaxCount, month : BOOLEAN, year : BOOLEAN]

InitInterval ==
    /\ MainIdle
    /\ pc = "schedule"
    /\ pdf = <<>>
    /\ cert_ranges = <<>>
    /\ cert_pdfs = <<>>
    /\ \E iv \in IntervalTexts \cup {NoInterval} :
          cert = [EmptyCert EXCEPT !.cal_interval = iv]
    /\ match = NoMatch

\* the call; ev.outcome is the schedule code returned
DetermineSchedule ==
    /\ pc = "schedule"
    /\ pc' = "schedule_done"
    /\ ev' = Event("determine_schedule_from_interval", 0, ToolDefaults, cert, "",
                   determine_schedule_from_interval(cert.cal_interval))
    /\ UNCHANGED <<db, session, batch, today, pureVars>>

SpecInterval == InitInterval /\ [][DetermineSchedule]_vars

\* C20: for a non-empty interval string, N months gives monthly (N <= 1),
\* quarterly (N <= 3), semiannual (N <= 6), annual (N <= 12), biennial
\* (N <= 24); 1 year gives annual and 2 years biennial; a string with no
\* month or year count gives semiannual, the Cal Tec Labs default.
C20_ReferenceMapping ==
    (pc = "schedule_done" /\ ~cert.cal_interval.empty) =>
        LET iv == cert.cal_interval
            N == iv.num
            code == ev.outcome
        IN  /\ (iv.month /\ ~iv.year /\ N >= 0 /\ N <= 24) =>
                  code = IF N <= 1 THEN "monthly"
                         ELSE IF N <= 3 THEN "quarterly"
                         ELSE IF N <= 6 THEN "semiannual"
                         ELSE IF N <= 12 THEN "annual"
                         ELSE "biennial"
            /\ (iv.year /\ ~iv.month /\ N = 1) => code = "annual"
            /\ (iv.year /\ ~iv.month /\ N = 2) => code = "biennial"
            /\ (N = -1 \/ (~iv.month /\ ~iv.year)) => code = "semiannual"

\* a text without digits, "month" or "year" (such as "ASAP") gave semiannual
C20_UnreadableIntervalSemiannual ==
    /\ pc = "schedule_done"
    /\ cert.cal_interval = [empty |-> FALSE, num |-> -1, month |-> FALSE, year |-> FALSE]
    /\ ev.outcome = "semiannual"

\* C21: the CalibrationRecord an automatic match creates names in its notes
\* the rule that fired (the highest-priority rule with a hit, which hits the
\* tool the record belongs to) and the certificate identifier it matched on.
C21_NotesJustifyMatch ==
    [][ (ev'.op = "bulk_upload_cert" /\ ev'.outcome = "linked") =>
          \E r \in DOMAIN session'.records \ DOMAIN session.records :
             LET rec == session'.records[r]
                 hit == RulesWithHit(session.tools, ev'.cert)
                 k == CHOOSE i \in hit : \A j \in hit : i <= j
             IN  /\ hit # {}
                 /\ rec.tool_id = ev'.tool
                 /\ RuleHits(k, session.tools[ev'.tool], ev'.cert)
                 /\ rec.notes.flow = "bulk_upload"
                 /\ rec.notes.method = MatchRules[k].tag
                 /\ rec.notes.value = Strip(ev'.cert[MatchRules[k].id])
                 /\ rec.notes.value # NoId ]_vars

\* a certificate matched by its serial number left a record saying so
C21_SerialMatchNoted ==
    /\ ev.op = "bulk_upload_cert"
    /\ ev.outcome = "linked"
    /\ ev.method = "serial_number"
    /\ \E r \in DOMAIN session.records :
          /\ session.records[r].tool_id = ev.tool
          /\ session.records[r].notes =
                [flow |-> "bulk_upload", method |-> "serial_number",
                 value |-> ev.cert.serial_number]

\* C22: while a bulk_upload runs and when it has committed, every certificate
\* handled so far appears exactly once in the results, in order, with its
\* stored sub-document, as linked or as unmatched; the linked ones are the
\* records the batch added; and the reported totals satisfy
\* total certificates = matched + unmatched.
C22_NoCertificateLost ==
    ( \/ pc = "bulk_upload"
      \/ ev.op = "bulk_upload_commit" /\ ev.outcome = "committed" ) =>
        LET results == batch.results
            stats == BatchStats(results)
        IN  /\ Len(results) = batch.certs
            /\ \A i \in DOMAIN results :
                  /\ results[i].index = i
                  /\ results[i].stored = i
                  /\ results[i].action = IF results[i].matched THEN "linked" ELSE "unmatched"
            /\ stats.total_certs = batch.certs
            /\ stats.total_certs = stats.matched + stats.unmatched
            /\ stats.matched =
                  Cardinality(DOMAIN session.records \ DOMAIN batch.start.records)

\* a batch of one linked and one unmatched certificate was committed
C22_MixedBatchReported ==
    /\ ev.op = "bulk_upload_commit" /\ ev.outcome = "committed"
    /\ BatchStats(batch.results) = [total_certs |-> 2, matched |-> 1, unmatched |-> 1]
    /\ Cardinality(DOMAIN db.records \ DOMAIN batch.start.records) = 1

\* the operations that create CalibrationRecords, by the step that commits them
RecordWriters ==
    {"calibrate", "bulk_upload_commit", "bulk_upload_link", "bulk_upload_link_new"}

\* C23: in every step a persistent CalibrationRecord either stays exactly as
\* it was or disappears, and it disappears only in a tool_delete of its own
\* tool; records appear only in a step of calibrate, bulk_upload or
\* bulk_upload_link; delete_attachment leaves the records as they were.
C23_RecordsAppendOnly ==
    [][ /\ \A r \in DOMAIN db.records :
             IF db'.records = db.records \/ ev'.op \in RecordWriters
             THEN r \in DOMAIN db'.records /\ db'.records[r] = db.records[r]
             ELSE /\ ev'.op = "tool_delete"
                  /\ DOMAIN db'.records \subseteq DOMAIN db.records
                  /\ IF db.records[r].tool_id = ev'.tool
                     THEN r \notin DOMAIN db'.records
                     ELSE r \in DOMAIN db'.records /\ db'.records[r] = db.records[r]
        /\ DOMAIN db'.records \ DOMAIN db.records # {} => ev'.op \in RecordWriters
        /\ ev'.op = "delete_attachment" => db'.records = db.records ]_vars

\* an attachment of a recorded certificate was deleted and its record is
\* still there
C23_AttachmentGoneRecordKept ==
    /\ ev.op = "delete_attachment"
    /\ ev.outcome = "committed"
    /\ \E r \in DOMAIN db.records :
          /\ db.records[r].tool_id = ev.tool
          /\ db.records[r].notes.flow = "bulk_upload"
          /\ \A a \in DOMAIN db.attachments :
                db.attachments[a].calibration_record_id # r

\* C24: linking a certificate by hand to an existing tool that the
\* certificate would also match automatically leaves the tool as the
\* automatic reconciliation would (dates, backfilled info, inferred
\* schedule, status) and adds the same record apart from its notes.
C24_LinkEqualsAutomatic ==
    [][ ( /\ ev'.op = "bulk_upload_link"
          /\ ev'.outcome = "committed"
          /\ \E m \in match_cert_to_tool(BeforeRequest(db, today).tools, ev'.cert) :
                m.tool = ev'.tool )
        => /\ session'.tools[ev'.tool] = ReconcileMatched(ev'.pre, ev'.cert, today)
           /\ \E r \in DOMAIN session'.records \ DOMAIN session.records :
                 [session'.records[r] EXCEPT !.notes = Notes("", "", NoId)]
                    = NewRecord(ev'.tool, ev'.cert, today, Notes("", "", NoId)) ]_vars

\* C25: a tool that a failing result left out_of_cal is still out_of_cal
\* after a request that does nothing but the per-request status refresh.
C25_OutOfCalSurvivesRefresh ==
    [][ ev'.op = "view" =>
          \A t \in DOMAIN db.tools :
             ( /\ db.tools[t].status = "out_of_cal"
               /\ \E r \in DOMAIN db.records :
                     /\ db.records[r].tool_id = t
                     /\ db.records[r].result = "fail" )
             => db'.tools[t].status = "out_of_cal" ]_vars

\* C26: when match_cert_to_tool returns a tool, exactly one tool of the store
\* satisfies the rule that decided, so the result does not depend on which
\* of several satisfying tools the store yields first.
C26_NoMatchTies ==
    (pc = "match_done" /\ match.tool # 0) =>
        \A k \in 1..6 :
            MatchRules[k].tag = match.method =>
                Cardinality({t \in DOMAIN session.tools :
                                RuleHits(k, session.tools[t], cert)}) = 1

\* the result word on the certificate: the first one in its text
RawResult(doc) ==
    IF \E i \in 1..Len(doc) : doc[i].cal_result # ""
    THEN doc[CHOOSE i \in 1..Len(doc) :
                /\ doc[i].cal_result # ""
                /\ \A j \in 1..(i - 1) : doc[j].cal_result = ""].cal_result
    ELSE ""

\* C27: when bulk_upload reconciles a certificate whose result word is not a
\* recognized one, the record it creates has result pass and its notes hold
\* the word as the certificate shows it.
C27_RawResultInNotes ==
    [][ \A doc \in UploadDocs :
          ( /\ split_pdf_into_certificates([i \in 1..Len(doc) |-> doc[i].phrases])
                  = << <<0, Len(doc) - 1>> >>
            /\ RawResult(doc) \notin {"", "PASS", "Pass", "pass", "FAIL", "Fail", "fail"}
            /\ ev'.op = "bulk_upload_cert"
            /\ ev'.outcome = "linked"
            /\ ev'.cert = ScenarioCert(doc) )
          => \E r \in DOMAIN session'.records \ DOMAIN session.records :
                /\ session'.records[r].result = "pass"
                /\ \/ session'.records[r].notes.flow = RawResult(doc)
                   \/ session'.records[r].notes.method = RawResult(doc) ]_vars

\* the stores bulk_upload may reach from store by handling one certificate
Processed(store, cert_data) ==
    { IF m.tool = 0 THEN store
      ELSE WithReconciled(store, m.tool,
               ReconcileMatched(store.tools[m.tool], cert_data, today),
               cert_data, today, Notes("bulk_upload", m.method, m.value)) :
      m \in match_cert_to_tool(store.tools, cert_data) }

\* C28: when a batch has handled two certificates, its tools are in the
\* state that handling the same two certificates in the other order, from
\* the store the batch started with, leads to.
C28_OrderIndependent ==
    [][ ( /\ pc = "bulk_upload"
          /\ batch.certs = 1
          /\ ev.op = "bulk_upload_cert"
          /\ ev'.op = "bulk_upload_cert"
          /\ ev'.outcome # "failed" )
        => \A s1 \in Processed(batch.start, ev'.cert) :
              \A s2 \in Processed(s1, ev.cert) :
                 s2.tools = session'.tools ]_vars

\* C29: a tool whose backup-list flag is set keeps its status when a passing
\* certificate is reconciled with it, as it does under the per-request refresh
C29_BackupListNotRefreshed ==
    ( /\ Reconciled
      /\ ev.op # "bulk_upload_link_new"
      /\ ev.pre.on_backup_list
      /\ determine_cert_result(ev.cert.cal_result) # "fail" )
    => Post.status = ev.pre.status

\* C30: a certificate without a calibration date leaves the dates of the tool
\* it is reconciled with as they were
C30_UndatedCertKeepsDates ==
    ( /\ Reconciled
      /\ ev.op # "bulk_upload_link_new"
      /\ ev.cert.cal_date = NoDate )
    => /\ Post.last_calibration_date = ev.pre.last_calibration_date
       /\ Post.next_calibration_date = ev.pre.next_calibration_date
=============================================================================
